---- MODULE Spec2Model ----
(***************************************************************************)
(* Task lifecycle of the Protox handler (src/protox_handler.py): the three *)
(* orchestration calls submit_prediction, predict_single and predict_batch,*)
(* the standalone status query, the result cache, and the three gateway    *)
(* round trips _submit_task, _retrieve_task_status and _get_results.       *)
(*                                                                         *)
(* One flow runs at a time.  A call is split at the points where the code  *)
(* blocks: every HTTP round trip and every time.sleep is one step, and the *)
(* remote backend's answer is chosen in the step that receives it.         *)
(*                                                                         *)
(* Strings are sequences of one-character strings.  None is -1 (poll       *)
(* budgets are drawn from 0..MaxPolls).                                    *)
(***************************************************************************)
EXTENDS Integers, Sequences, FiniteSets, TLC

\* ---------------------------------------------------------------- bounds
\* The longest list predict_batch is given: in a call studied alone, and in
\* calls that follow one another on the same handler.
MaxBatch == 2
MaxBatchRepeated == 1
\* The longest list the batch route is given.
MaxBatchRoute == 3
\* The largest poll budget.
MaxPolls == 1

\* ------------------------------------------------------------- strings
None == -1
NoTask == <<>>
NoPrediction == -1

Whitespace == {" "}

\* The identifiers the calls are given, and the bodies an enqueue is answered
\* with: empty, whitespace only, and text with and without whitespace around.
Smiles == {<<>>, <<" ">>, <<"a">>}
Bodies == {<<>>, <<" ">>, <<"a">>, <<" ", "a">>, <<"b", " ">>}

RECURSIVE LStrip(_)
LStrip(s) == IF s # <<>> /\ Head(s) \in Whitespace THEN LStrip(Tail(s)) ELSE s

RECURSIVE RStrip(_)
RStrip(s) ==
  IF s # <<>> /\ s[Len(s)] \in Whitespace
  THEN RStrip(SubSeq(s, 1, Len(s) - 1))
  ELSE s

Strip(s) == RStrip(LStrip(s))

IsBlank_nostrip(smiles) == smiles = <<>>

IsBlank(smiles) == smiles = <<>> \/ Strip(smiles) = <<>>

TaskIds == {Strip(b) : b \in Bodies} \ {<<>>}

\* ------------------------------------------------------------ registry
Toxicity == <<"t", "o", "x", "i", "c", "i", "t", "y">>
AVAILABLE_PROPERTIES == <<Toxicity>>

\* The categories the calls are given: one the registry holds once its case
\* is folded, one it does not hold.
PropertyNames ==
  { <<"T", "o", "x", "i", "c", "i", "t", "y">>,
    <<"s", "o", "l", "u", "b", "i", "l", "i", "t", "y">> }

LowerChar(c) == IF c = "T" THEN "t" ELSE c

RECURSIVE Lower(_)
Lower(s) == IF s = <<>> THEN <<>> ELSE <<LowerChar(Head(s))>> \o Lower(Tail(s))

validate_property(name) ==
  Lower(name) \in {Lower(AVAILABLE_PROPERTIES[j]) : j \in 1..Len(AVAILABLE_PROPERTIES)}

\* ------------------------------------------------- the backend's answers
\* The Retry-After header: absent, text int() accepts, or text it rejects.
RetryAfterHeaders == {"absent", "2", "-3", "Wed"}
IsInt(h) == h \in {"2", "-3"}
IntOf(h) == CASE h = "2" -> 2 [] h = "-3" -> 0 - 3
DEFAULT_RETRY_AFTER == 5

TransportError == [code |-> 0, text |-> <<>>, retry |-> "absent"]

EnqueueResponses ==
  [code : {200}, text : Bodies, retry : RetryAfterHeaders]
    \cup [code : {429}, text : {<<>>}, retry : RetryAfterHeaders]
    \cup [code : {403, 500}, text : {<<>>}, retry : {"absent"}]
    \cup {TransportError}

StatusResponses ==
  [code : {200, 202, 404, 500}, text : {<<>>, <<"a">>}, retry : {"absent"}]
    \cup {TransportError}

\* A result body is a sequence of lines, a line the sequence of its
\* tab-separated cells; the first line is the header.
Header == <<"score">>
ResultTexts ==
  { <<>>, <<Header>>, <<Header, <<"7">>>>, <<Header, <<"x">>>> }

FetchResponses ==
  [code : {200}, text : ResultTexts] \cup [code : {0, 404}, text : {<<>>}]

IsSuccess(code) == code >= 200 /\ code <= 299

\* ---------------------------------------------------------- exceptions
\* An exception is named by the message str(e) gives.
RateLimitedException == "Rate limited by Protox"
QuotaExceededException == "Daily quota exceeded for Protox API"
NoTaskIdError == "No task ID returned from submission"
RetryAfterError == "invalid Retry-After"
ApiError == "Protox API error"
ConnectError == "transport error"
HTTPStatusError == "HTTP status error"


\* ------------------------------------------------------- pure functions
Raise(exc) == [raised |-> TRUE, exc |-> exc, task_id |-> NoTask, retry_after |-> 0]
Return_(tid, ra) == [raised |-> FALSE, exc |-> "", task_id |-> tid, retry_after |-> ra]

RetryAfterOf_short(h) == (IF h = "absent" THEN DEFAULT_RETRY_AFTER ELSE IntOf(h)) - 1

\* int(response.headers.get("Retry-After", 5)) + 1
RetryAfterOf(h) == (IF h = "absent" THEN DEFAULT_RETRY_AFTER ELSE IntOf(h)) + 1
RetryAfterParses(h) == h = "absent" \/ IsInt(h)

\* The seconds a Retry-After header asks the client to let pass: none when
\* the header is absent or is not a count of at least one second.
HintSeconds(h) == IF IsInt(h) /\ IntOf(h) > 0 THEN IntOf(h) ELSE 0

TaskIdOf_raw(text) == text

\* task_id = response.text.strip()
TaskIdOf(text) == Strip(text)

\* _submit_task, from the response to the return or the exception.
SubmitTaskResult(resp) ==
  IF resp = TransportError THEN Raise(ConnectError)
  ELSE IF resp.code = 200 THEN
    LET tid == TaskIdOf(resp.text) IN
    IF tid = <<>> THEN Raise(NoTaskIdError)
    ELSE IF ~RetryAfterParses(resp.retry) THEN Raise(RetryAfterError)
    ELSE IF RetryAfterOf(resp.retry) < 0 THEN Raise(RetryAfterError)
    ELSE Return_(tid, RetryAfterOf(resp.retry))
  ELSE IF resp.code = 429 THEN
    IF ~RetryAfterParses(resp.retry) THEN Raise(RetryAfterError)
    ELSE Raise(RateLimitedException)
  ELSE IF resp.code = 403 THEN Raise(QuotaExceededException)
  ELSE Raise(ApiError)

\* The wait an answer to an enqueue carries: a 200 with a task id and a 429
\* carry the seconds of their Retry-After header.
NoWait == [after |-> "none", secs |-> 0]
WaitOf(resp) ==
  IF HintSeconds(resp.retry) = 0 THEN NoWait
  ELSE IF resp.code = 200 /\ TaskIdOf(resp.text) # <<>>
    THEN [after |-> "success", secs |-> HintSeconds(resp.retry)]
  ELSE IF resp.code = 429 THEN [after |-> "429", secs |-> HintSeconds(resp.retry)]
  ELSE NoWait

\* What is left of a wait once the flow has slept secs seconds.
Elapse(w, secs) ==
  IF w.secs - secs > 0 THEN [w EXCEPT !.secs = w.secs - secs] ELSE NoWait

SubmitErrorMessage_merged(exc) == exc

\* The except clauses of submit_prediction.
SubmitErrorMessage(exc) ==
  IF exc = QuotaExceededException THEN "Daily quota exceeded"
  ELSE IF exc = RateLimitedException THEN "Rate limited, please retry later"
  ELSE exc

StatusRaises_statusonly(resp) == resp # TransportError /\ ~IsSuccess(resp.code)

\* _retrieve_task_status: the request fails, or raise_for_status() raises.
StatusRaises(resp) == resp = TransportError \/ ~IsSuccess(resp.code)
\* The kind of answer a status check got.
NoStatus == "none"
StatusKind(resp) ==
  IF resp = TransportError THEN "transport error"
  ELSE IF ~IsSuccess(resp.code) THEN "non-2xx"
  ELSE IF resp.text = <<>> THEN "2xx, empty body"
  ELSE IF resp.code = 200 THEN "200 with a body"
  ELSE "2xx other than 200 with a body"

StatusReady_anybody(resp) == resp.code = 200

\* response.status_code == 200 and response.text
StatusReady(resp) == resp.code = 200 /\ resp.text # <<>>

BudgetExhausted_gt(mp, count) == mp # None /\ count > mp
BudgetExhausted_truthy(mp, count) == mp # None /\ mp # 0 /\ count >= mp
BudgetExhausted_never(mp, count) == FALSE

\* max_polls is not None and poll_count >= max_polls
BudgetExhausted(mp, count) == mp # None /\ count >= mp

\* pd.read_csv(StringIO(text), sep='\t')
ReadCsvRaises(text) == text = <<>>
ReadCsv(text) == [columns |-> Head(text), rows |-> Tail(text)]
Docs == {ReadCsv(t) : t \in {u \in ResultTexts : ~ReadCsvRaises(u)}}

DfEmpty(df) == df.rows = <<>> \/ df.columns = <<>>
FirstCell(df) == df.rows[1][1]
FloatRaises(cell) == cell # "7"
Float(cell) == CASE cell = "7" -> 7

EmptyCache == [t \in {} |-> ReadCsv(<<Header>>)]

CacheHit_never(c, tid) == FALSE

\* task_id in self._task_cache
CacheHit(c, tid) == tid \in DOMAIN c

CachePut_only(c, tid, df) == [t \in {tid} |-> df]

\* self._task_cache[task_id] = df
CachePut(c, tid, df) == [t \in DOMAIN c \cup {tid} |-> IF t = tid THEN df ELSE c[t]]

Cleared_keep(c) == c

\* self._task_cache.clear()
Cleared(c) == EmptyCache

get_cache_size(c) == Cardinality(DOMAIN c)

Outcome(idx, tid, status, error, prediction) ==
  [idx |-> idx, task_id |-> tid, status |-> status, error |-> error,
   prediction |-> prediction]

Extract_blind(idx, tid, df) == Outcome(idx, tid, "success", "", NoPrediction)

\* What the poll loop returns once _get_results has handed it df.
Extract(idx, tid, df) ==
  IF DfEmpty(df) THEN Outcome(idx, tid, "error", "Empty results from Protox", NoPrediction)
  ELSE IF FloatRaises(FirstCell(df))
    THEN Outcome(idx, tid, "error", "Failed to parse results", NoPrediction)
  ELSE Outcome(idx, tid, "success", "", Float(FirstCell(df)))

has_success_all(rs) == \A m \in DOMAIN rs : rs[m].status = "success"

\* main.py: any(r["status"] == "success" for r in results)
has_success(rs) == \E m \in DOMAIN rs : rs[m].status = "success"

\* main.py: batch_status = "partial" if has_success else "error"
BatchStatus(rs) == IF has_success(rs) THEN "partial" ELSE "error"

NextNonBlank_noskip(list, j) == j

\* The next index of smiles_list, from j on, that predict_batch does not skip.
RECURSIVE NextNonBlank(_, _)
NextNonBlank(list, j) ==
  IF j > Len(list) THEN j
  ELSE IF IsBlank(list[j]) THEN NextNonBlank(list, j + 1)
  ELSE j

EnqueuesLeft_first(list, n) == n <= 1

\* for smiles in smiles_list: the first loop of predict_batch has not run out.
EnqueuesLeft(list, n) == n <= Len(list)

MoreTasks_stop(tasks, n) == FALSE

\* for task_info in task_list: the second loop of predict_batch has not run out.
MoreTasks(tasks, n) == n < Len(tasks)

RECURSIVE SeqsUpTo(_, _)
SeqsUpTo(S, n) ==
  IF n = 0 THEN {<<>>}
  ELSE LET P == SeqsUpTo(S, n - 1)
       IN  P \cup {Append(q, x) : q \in {t \in P : Len(t) = n - 1}, x \in S}

SmilesLists == SeqsUpTo(Smiles, MaxBatch)
SmilesListsRoute == SeqsUpTo(Smiles, MaxBatchRoute)
SmilesListsRepeated == SeqsUpTo(Smiles, MaxBatchRepeated)
PollBudgets == {None} \cup (0..MaxPolls)
\* The budgets the batch route is given: none to spend, and the largest.
RouteBudgets == {0, MaxPolls}
\* poll_count and the history counters are unbounded in the code.  Past every
\* budget their values decide nothing, so the model stops counting there.
PollCap == MaxPolls + 1
CallCap == MaxPolls + 2


\* The threads that may be inside _get_results of one handler at a time.
NumFlows == 2
Flows == 1..NumFlows
Outside == [pc |-> "outside", task_id |-> NoTask, df |-> <<>>]

\* ---------------------------------------------------------------- state
VARIABLES
  cache,          \* self._task_cache: task id -> parsed result document
  pc,             \* where the running call stands
  op,             \* the public operation that is running
  smiles_list,    \* its identifiers (one for submit_prediction, predict_single)
  property_name,
  max_polls,
  i,              \* predict_batch: index of the identifier being submitted
  task_id,        \* _submit_task: the id it is about to return
  retry_after,    \* _submit_task: the seconds it sleeps
  task_list,      \* the tasks submitted, each with the index of its identifier
  k,              \* index in task_list of the task being polled
  poll_count,
  results,        \* the outcomes the call returns
  enqueued,       \* history: enqueues issued per identifier in this call
  failed,         \* history: the identifiers whose enqueue failed in this call
  checks,         \* history: status checks issued in the current poll loop
  fetches,        \* history: result downloads issued in the current poll loop
  enq_resp,       \* history: the answer to the enqueue of a single-identifier call
  fetched,        \* history: where _get_results took its document from, in this loop
  evicted,        \* history: the task ids a clear_cache removed, not fetched since
  owed,           \* history: what is left of the wait the last enqueue answer carried
  status_resp,    \* history: the kind of answer the status check just made got
  cancelled,      \* the caller of the running call has given it up
  batch_status,   \* main.py: the status of the batch response
  issued,         \* history: the task id the enqueue of each identifier returned
  flows           \* threads inside _get_results on this handler, side by side

vars ==
  <<cache, pc, op, smiles_list, property_name, max_polls, i, task_id,
    retry_after, task_list, k, poll_count, results, enqueued, failed, checks,
    fetches, enq_resp, fetched, evicted, owed, status_resp, cancelled,
    batch_status, issued, flows>>

NoResp == [code |-> -1, text |-> <<>>, retry |-> "absent"]
NotFetched == "none"

Bump(n) == IF n < CallCap THEN n + 1 ELSE n

Init ==
  /\ cache = EmptyCache
  /\ pc = "idle"
  /\ op = "none"
  /\ smiles_list = <<>>
  /\ property_name = <<>>
  /\ max_polls = None
  /\ i = 0
  /\ task_id = NoTask
  /\ retry_after = 0
  /\ task_list = <<>>
  /\ k = 0
  /\ poll_count = 0
  /\ results = <<>>
  /\ enqueued = <<>>
  /\ failed = {}
  /\ checks = 0
  /\ fetches = 0
  /\ enq_resp = NoResp
  /\ fetched = NotFetched
  /\ evicted = {}
  /\ owed = NoWait
  /\ status_resp = NoStatus
  /\ cancelled = FALSE
  /\ batch_status = ""
  /\ issued = <<>>
  /\ flows = [f \in Flows |-> Outside]

\* A call begins: its arguments, and nothing done yet.
Begin(name, list, prop, mp) ==
  /\ pc = "idle"
  /\ op' = name
  /\ smiles_list' = list
  /\ property_name' = prop
  /\ max_polls' = mp
  /\ enqueued' = [j \in 1..Len(list) |-> 0]
  /\ issued' = [j \in 1..Len(list) |-> NoTask]
  /\ UNCHANGED <<cache, task_id, retry_after, task_list, poll_count, failed,
                 checks, fetches, enq_resp, fetched, evicted, owed, cancelled,
                 batch_status, flows>>

\* The call returns result without having touched the gateway.
Reject(error) ==
  /\ results' = <<Outcome(1, NoTask, "error", error, NoPrediction)>>
  /\ pc' = "done"
  /\ UNCHANGED <<i, k>>

Validate(smiles, prop) ==
  IF IsBlank(smiles) THEN Reject("SMILES string cannot be empty")
  ELSE IF ~validate_property(prop) THEN Reject("Property not supported")
  ELSE /\ pc' = "enqueue"
       /\ i' = 1
       /\ UNCHANGED <<results, k>>

submit_prediction(smiles, prop) ==
  /\ Begin("submit_prediction", <<smiles>>, prop, None)
  /\ Validate(smiles, prop)
  /\ UNCHANGED status_resp

predict_single(smiles, prop, mp) ==
  /\ Begin("predict_single", <<smiles>>, prop, mp)
  /\ Validate(smiles, prop)
  /\ UNCHANGED status_resp

\* predict_batch leaves its first loop: it polls task_list'[1], or returns
\* the empty list.
StartPolling(tasks) ==
  /\ poll_count' = 0
  /\ IF tasks = <<>>
     THEN pc' = "done" /\ k' = 0
     ELSE pc' = "poll" /\ k' = 1

\* predict_batch goes on to the identifier at index j, or to its second loop.
SubmitFrom(list, j, tasks) ==
  LET n == NextNonBlank(list, j) IN
  /\ i' = n
  /\ IF EnqueuesLeft(list, n)
     THEN pc' = "enqueue" /\ UNCHANGED <<k, poll_count>>
     ELSE StartPolling(tasks)

predict_batch(list, prop, mp) ==
  /\ pc = "idle"
  /\ op' = "predict_batch"
  /\ smiles_list' = list
  /\ property_name' = prop
  /\ max_polls' = mp
  /\ enqueued' = [j \in 1..Len(list) |-> 0]
  /\ issued' = [j \in 1..Len(list) |-> NoTask]
  /\ SubmitFrom(list, 1, <<>>)
  /\ results' = <<>>
  /\ UNCHANGED <<cache, task_id, retry_after, task_list, failed, checks, fetches,
                 enq_resp, fetched, evicted, owed, status_resp, cancelled,
                 batch_status, flows>>


TaskEntry_first(tid, idx) == [task_id |-> tid, idx |-> 1]

\* task_list.append({"task_id": task_id, "smiles": smiles})
TaskEntry(tid, idx) == [task_id |-> tid, idx |-> idx]

AfterFailure_retry(idx) == idx
AfterFailure_skip(idx) == idx + 2

\* predict_batch logs the exception of _submit_task and its loop goes on with
\* the identifier after the one at idx.
AfterFailure(idx) == idx + 1

\* _submit_task posts the identifier at index i and reads the answer.
SubmitTask ==
  /\ pc = "enqueue"
  /\ \E resp \in EnqueueResponses :
       LET r == SubmitTaskResult(resp) IN
       /\ enqueued' = [enqueued EXCEPT ![i] = Bump(enqueued[i])]
       /\ failed' = (IF r.raised THEN failed \cup {i} ELSE failed)
       /\ issued' = (IF r.raised THEN issued ELSE [issued EXCEPT ![i] = r.task_id])
       /\ enq_resp' = (IF op = "predict_batch" THEN NoResp ELSE resp)
       /\ owed' = (IF /\ op = "predict_batch" /\ r.raised
                      /\ ~EnqueuesLeft(smiles_list,
                                       NextNonBlank(smiles_list, AfterFailure(i)))
                   THEN NoWait ELSE WaitOf(resp))
       /\ IF ~r.raised
          THEN /\ task_id' = r.task_id
               /\ retry_after' = r.retry_after
               /\ pc' = "cooldown"
               /\ UNCHANGED <<i, task_list, k, poll_count, results>>
          ELSE /\ UNCHANGED <<task_id, retry_after, task_list>>
               /\ IF op = "submit_prediction"
                  THEN /\ results' = <<Outcome(1, NoTask, "error",
                                               SubmitErrorMessage(r.exc), NoPrediction)>>
                       /\ pc' = "done"
                       /\ UNCHANGED <<i, k, poll_count>>
                  ELSE IF op = "predict_single"
                  THEN /\ results' = <<Outcome(1, NoTask, "error", r.exc, NoPrediction)>>
                       /\ pc' = "done"
                       /\ UNCHANGED <<i, k, poll_count>>
                  ELSE /\ SubmitFrom(smiles_list, AfterFailure(i), task_list)
                       /\ UNCHANGED results
  /\ UNCHANGED <<cache, op, smiles_list, property_name, max_polls, checks,
                 fetches, fetched, evicted, status_resp, cancelled, batch_status,
                 flows>>

\* time.sleep(retry_after) ends and _submit_task returns task_id.
CoolDown ==
  /\ pc = "cooldown"
  /\ task_id' = NoTask
  /\ retry_after' = 0
  /\ owed' = Elapse(owed, retry_after)
  /\ IF op = "submit_prediction"
     THEN /\ results' = <<Outcome(1, task_id, "submitted", "", NoPrediction)>>
          /\ pc' = "done"
          /\ UNCHANGED <<i, task_list, k, poll_count>>
     ELSE /\ task_list' = Append(task_list, TaskEntry(task_id, i))
          /\ UNCHANGED results
          /\ IF op = "predict_single"
             THEN StartPolling(task_list') /\ UNCHANGED i
             ELSE SubmitFrom(smiles_list, i + 1, task_list')
  /\ UNCHANGED <<cache, op, smiles_list, property_name, max_polls, enqueued,
                 failed, checks, fetches, enq_resp, fetched, evicted, status_resp,
                 cancelled, batch_status,
                 issued, flows>>

\* _poll_for_results returns result to its caller.  c and f are the gateway
\* calls the loop has issued by then, how is where its document came from.
Finish(result, c, f, how) ==
  /\ results' = Append(results, result)
  /\ pc' = "returned"
  /\ checks' = c
  /\ fetches' = f
  /\ fetched' = how
  /\ UNCHANGED <<k, poll_count>>

\* The caller of the poll loop goes on: predict_batch polls its next task,
\* or the call returns.
NextTask ==
  /\ pc = "returned"
  /\ IF MoreTasks(task_list, k)
     THEN /\ pc' = "poll" /\ k' = k + 1 /\ poll_count' = 0
          /\ checks' = 0 /\ fetches' = 0 /\ fetched' = NotFetched
     ELSE /\ pc' = "done"
          /\ UNCHANGED <<k, poll_count, checks, fetches, fetched>>
  /\ status_resp' = NoStatus
  /\ UNCHANGED <<cache, op, smiles_list, property_name, max_polls, i, task_id,
                 retry_after, task_list, results, enqueued, failed, enq_resp,
                 evicted, owed, cancelled, batch_status,
                 issued, flows>>

\* The poll loop finds its budget spent.
PollTimeout ==
  /\ pc = "poll"
  /\ BudgetExhausted(max_polls, poll_count)
  /\ Finish(Outcome(task_list[k].idx, NoTask, "timeout", "Task did not complete",
                    NoPrediction), checks, fetches, fetched)
  /\ UNCHANGED <<cache, op, smiles_list, property_name, max_polls, i, task_id,
                 retry_after, task_list, enqueued, failed, enq_resp, evicted,
                 owed, status_resp, cancelled, batch_status,
                 issued, flows>>

\* One status check of the poll loop.
RetrieveTaskStatus ==
  /\ pc = "poll"
  /\ ~BudgetExhausted(max_polls, poll_count)
  /\ \E resp \in StatusResponses :
       /\ status_resp' = StatusKind(resp)
       /\ IF StatusRaises(resp)
          THEN Finish(Outcome(task_list[k].idx, task_list[k].task_id, "error",
                              IF resp = TransportError THEN ConnectError
                              ELSE HTTPStatusError, NoPrediction),
                      Bump(checks), fetches, fetched)
          ELSE /\ checks' = Bump(checks)
               /\ UNCHANGED <<k, results, fetches, fetched>>
               /\ IF StatusReady(resp)
                  THEN pc' = "fetch" /\ UNCHANGED poll_count
                  ELSE /\ poll_count' = (IF poll_count < PollCap THEN poll_count + 1
                                         ELSE poll_count)
                       /\ pc' = "sleep"
  /\ UNCHANGED <<cache, op, smiles_list, property_name, max_polls, i, task_id,
                 retry_after, task_list, enqueued, failed, enq_resp, evicted,
                 owed, cancelled, batch_status,
                 issued, flows>>

\* time.sleep(self.poll_interval) ends.
PollSleep ==
  /\ pc = "sleep"
  /\ pc' = "poll"
  /\ status_resp' = NoStatus
  /\ UNCHANGED <<cache, op, smiles_list, property_name, max_polls, i, task_id,
                 retry_after, task_list, k, poll_count, results, enqueued, failed,
                 checks, fetches, enq_resp, fetched, evicted, owed, cancelled,
                 batch_status,
                 issued, flows>>

\* _get_results and what the poll loop makes of the document.
GetResults ==
  /\ pc = "fetch"
  /\ LET tid == task_list[k].task_id
         idx == task_list[k].idx
         how == IF tid \in evicted THEN "network after clear" ELSE "network"
     IN  IF CacheHit(cache, tid)
         THEN /\ Finish(Extract(idx, tid, cache[tid]), checks, fetches, "cache")
              /\ UNCHANGED cache
         ELSE /\ \E resp \in FetchResponses :
                   IF ~IsSuccess(resp.code) \/ ReadCsvRaises(resp.text)
                   THEN /\ Finish(Outcome(idx, tid, "error", "Failed to parse results",
                                          NoPrediction), checks, Bump(fetches),
                                  how)
                        /\ UNCHANGED cache
                   ELSE /\ cache' = CachePut(cache, tid, ReadCsv(resp.text))
                        /\ Finish(Extract(idx, tid, ReadCsv(resp.text)),
                                  checks, Bump(fetches), how)
  /\ evicted' = evicted \ {task_list[k].task_id}
  /\ UNCHANGED <<op, smiles_list, property_name, max_polls, i, task_id,
                 retry_after, task_list, enqueued, failed, enq_resp, owed,
                 status_resp, cancelled, batch_status,
                 issued, flows>>

get_task_status(tid) ==
  /\ Begin("get_task_status", <<>>, <<>>, None)
  /\ \E resp \in StatusResponses :
       /\ status_resp' = StatusKind(resp)
       /\ results' = <<Outcome(0, tid,
                        IF StatusRaises(resp) THEN "error"
                        ELSE IF StatusReady(resp) THEN "completed" ELSE "pending",
                        IF ~StatusRaises(resp) THEN ""
                        ELSE IF resp = TransportError THEN ConnectError
                        ELSE HTTPStatusError,
                        NoPrediction)>>
  /\ pc' = "done"
  /\ UNCHANGED <<i, k>>

clear_cache ==
  /\ pc = "idle"
  /\ cache' = Cleared(cache)
  /\ evicted' = evicted \cup DOMAIN cache
  /\ op' = "clear_cache"
  /\ pc' = "done"
  /\ UNCHANGED <<smiles_list, property_name, max_polls, i, task_id, retry_after,
                 task_list, k, poll_count, results, enqueued, failed, checks,
                 fetches, enq_resp, fetched, owed, status_resp, cancelled,
                 batch_status,
                 issued, flows>>

\* The caller has its result; the handler keeps only its cache.
Return ==
  /\ pc \in {"done", "responded"}
  /\ pc' = "idle"
  /\ op' = "none"
  /\ smiles_list' = <<>>
  /\ property_name' = <<>>
  /\ max_polls' = None
  /\ i' = 0
  /\ task_list' = <<>>
  /\ k' = 0
  /\ poll_count' = 0
  /\ results' = <<>>
  /\ enqueued' = <<>>
  /\ failed' = {}
  /\ checks' = 0
  /\ fetches' = 0
  /\ enq_resp' = NoResp
  /\ fetched' = NotFetched
  /\ owed' = NoWait
  /\ status_resp' = NoStatus
  /\ batch_status' = ""
  /\ issued' = <<>>
  /\ UNCHANGED <<cache, task_id, retry_after, evicted, cancelled, flows>>

\* main.py, the batch route: it refuses an empty list and a category the
\* registry does not hold, and hands the rest to predict_batch.
predict_batch_route(list, prop, mp) ==
  /\ pc = "idle"
  /\ list # <<>>
  /\ validate_property(prop)
  /\ predict_batch(list, prop, mp)

\* main.py, the batch route: predict_batch has returned results, and the
\* response carries their aggregate status.
BatchResponse ==
  /\ pc = "done"
  /\ op = "predict_batch"
  /\ batch_status' = BatchStatus(results)
  /\ pc' = "responded"
  /\ UNCHANGED <<cache, op, smiles_list, property_name, max_polls, i, task_id,
                 retry_after, task_list, k, poll_count, results, enqueued, failed,
                 checks, fetches, enq_resp, fetched, evicted, owed, status_resp,
                 cancelled, issued, flows>>

\* The caller of the running call gives it up while the call sleeps: its
\* deadline passes, or the client of the route goes away.  The handler holds
\* nothing that such a caller could set, and no step of a call reads this.
Cancel ==
  /\ pc \in {"cooldown", "sleep"}
  /\ ~cancelled
  /\ cancelled' = TRUE
  /\ UNCHANGED <<cache, pc, op, smiles_list, property_name, max_polls, i, task_id,
                 retry_after, task_list, k, poll_count, results, enqueued, failed,
                 checks, fetches, enq_resp, fetched, evicted, owed, status_resp,
                 batch_status,
                 issued, flows>>

Next ==
  \/ \E s \in Smiles, p \in PropertyNames : submit_prediction(s, p)
  \/ \E s \in Smiles, p \in PropertyNames, mp \in PollBudgets : predict_single(s, p, mp)
  \/ \E l \in SmilesListsRepeated, p \in PropertyNames, mp \in PollBudgets :
       predict_batch(l, p, mp)
  \/ \E t \in TaskIds : get_task_status(t)
  \/ clear_cache
  \/ SubmitTask
  \/ CoolDown
  \/ PollTimeout
  \/ RetrieveTaskStatus
  \/ PollSleep
  \/ GetResults
  \/ NextTask
  \/ Return

\* The calls of a handler follow one another.
Spec == Init /\ [][Next]_vars

\* One call on a new handler, studied alone.  The flow is a running thread:
\* while the call has a next step (a round trip that is answered or fails, a
\* sleep that ends), it takes it.
LiveNext ==
  \/ \E s \in Smiles, p \in PropertyNames : submit_prediction(s, p)
  \/ \E s \in Smiles, p \in PropertyNames, mp \in PollBudgets : predict_single(s, p, mp)
  \/ \E l \in SmilesLists, p \in PropertyNames, mp \in PollBudgets : predict_batch(l, p, mp)
  \/ SubmitTask
  \/ CoolDown
  \/ PollTimeout
  \/ RetrieveTaskStatus
  \/ PollSleep
  \/ GetResults
  \/ NextTask

FairSpec == Init /\ [][LiveNext]_vars /\ WF_vars(LiveNext)

\* One request of the batch route on a new handler.
RouteNext ==
  \/ \E l \in SmilesListsRoute, p \in PropertyNames, mp \in RouteBudgets :
       predict_batch_route(l, p, mp)
  \/ SubmitTask
  \/ CoolDown
  \/ PollTimeout
  \/ RetrieveTaskStatus
  \/ PollSleep
  \/ GetResults
  \/ NextTask
  \/ BatchResponse

RouteSpec == Init /\ [][RouteNext]_vars

\* One call on a new handler, and a caller that may give it up.
CancelNext == LiveNext \/ Cancel

CancelSpec == Init /\ [][CancelNext]_vars

\* _get_results, step by step, for threads that share the handler: the test
\* of the cache, the download and the parse, the assignment to the cache.
\* Nothing is locked between one step and the next.
FlowFrame ==
  UNCHANGED <<pc, op, smiles_list, property_name, max_polls, i, task_id,
              retry_after, task_list, k, poll_count, results, enqueued, failed,
              checks, fetches, enq_resp, fetched, evicted, owed, status_resp,
              cancelled, batch_status, issued>>

\* if task_id in self._task_cache: return self._task_cache[task_id]
get_results_lookup(f, tid) ==
  /\ flows[f].pc = "outside"
  /\ flows' = [flows EXCEPT ![f] =
                 IF CacheHit(cache, tid)
                 THEN [pc |-> "returned", task_id |-> tid, df |-> cache[tid]]
                 ELSE [pc |-> "download", task_id |-> tid, df |-> <<>>]]
  /\ UNCHANGED cache
  /\ FlowFrame

\* client.get, raise_for_status, pd.read_csv
get_results_download(f) ==
  /\ flows[f].pc = "download"
  /\ \E resp \in FetchResponses :
       flows' = [flows EXCEPT ![f] =
                  IF ~IsSuccess(resp.code) \/ ReadCsvRaises(resp.text)
                  THEN [@ EXCEPT !.pc = "raised"]
                  ELSE [@ EXCEPT !.pc = "insert", !.df = ReadCsv(resp.text)]]
  /\ UNCHANGED cache
  /\ FlowFrame

\* self._task_cache[task_id] = df; return df
get_results_insert(f) ==
  /\ flows[f].pc = "insert"
  /\ cache' = CachePut(cache, flows[f].task_id, flows[f].df)
  /\ flows' = [flows EXCEPT ![f].pc = "returned"]
  /\ FlowFrame

\* The thread is out of _get_results.
get_results_leave(f) ==
  /\ flows[f].pc \in {"returned", "raised"}
  /\ flows' = [flows EXCEPT ![f] = Outside]
  /\ UNCHANGED cache
  /\ FlowFrame

FetchNext ==
  \/ \E f \in Flows, t \in TaskIds : get_results_lookup(f, t)
  \/ \E f \in Flows : get_results_download(f)
  \/ \E f \in Flows : get_results_insert(f)
  \/ \E f \in Flows : get_results_leave(f)

FetchSpec == Init /\ [][FetchNext]_vars

TypeOK ==
  /\ DOMAIN cache \subseteq TaskIds
  /\ \A t \in DOMAIN cache : cache[t] \in Docs
  /\ pc \in {"idle", "enqueue", "cooldown", "poll", "sleep", "fetch", "returned",
            "done", "responded"}
  /\ max_polls \in PollBudgets
  /\ poll_count \in 0..PollCap
  /\ evicted \subseteq TaskIds
  /\ owed.after \in {"none", "success", "429"}
  /\ cancelled \in BOOLEAN
  /\ batch_status \in {"", "partial", "error"}


\* ============================================================== claims
WhitespaceOnly(s) == \A j \in 1..Len(s) : s[j] \in Whitespace
SingleCall == op \in {"submit_prediction", "predict_single"}
NoGatewayCall == (\A j \in DOMAIN enqueued : enqueued[j] = 0) /\ checks = 0 /\ fetches = 0
Last(seq) == seq[Len(seq)]
StatusAt(m) == IF m \in DOMAIN results THEN results[m].status ELSE "none"

\* C1: submit_prediction and predict_single, given an identifier that is
\* empty or whitespace only, or a category the registry does not hold, return
\* an error and never reach the gateway: no enqueue, no status check, no
\* result download.
C1_InvalidInputRejectedOffline ==
  (SingleCall /\ (WhitespaceOnly(smiles_list[1]) \/ ~validate_property(property_name)))
    => /\ pc = "done"
       /\ Len(results) = 1
       /\ results[1].status = "error"
       /\ NoGatewayCall

C1_Witness ==
  /\ op = "predict_single"
  /\ smiles_list[1] = <<" ">>
  /\ validate_property(property_name)
  /\ pc = "done"
  /\ results[1].status = "error"

\* C2: predict_batch, given a category the registry does not hold, issues no
\* enqueue for any identifier of the batch.
C2_BatchRejectsUnknownCategory ==
  (op = "predict_batch" /\ ~validate_property(property_name))
    => \A j \in DOMAIN enqueued : enqueued[j] = 0

\* C3: a poll loop with budget max_polls = n issues at most n status checks;
\* when all of them reported pending it has issued exactly n, has downloaded
\* nothing, and returns timeout.
Polling == op \in {"predict_single", "predict_batch"} /\ k >= 1
C3_BudgetBoundsStatusChecks ==
  (Polling /\ max_polls # None)
    => /\ checks <= max_polls
       /\ (pc = "returned" /\ poll_count = checks)
            => /\ Last(results).status = "timeout"
               /\ checks = max_polls
               /\ fetches = 0

C3_Witness ==
  /\ Polling
  /\ max_polls = MaxPolls
  /\ pc = "returned"
  /\ checks = MaxPolls
  /\ poll_count = checks
  /\ Last(results).status = "timeout"


\* C4: predict_single with max_polls = 0, once its enqueue has returned a
\* task id, issues no status check and no download, and ends with timeout.
ZeroBudgetCall == op = "predict_single" /\ max_polls = 0 /\ task_list # <<>>
C4_ZeroBudgetTimesOut ==
  /\ [](ZeroBudgetCall
          => /\ checks = 0
             /\ fetches = 0
             /\ pc \notin {"sleep", "fetch"}
             /\ (results # <<>> => StatusAt(1) = "timeout"))
  /\ (ZeroBudgetCall ~> (pc = "done" /\ StatusAt(1) = "timeout"))

C4_Witness == ZeroBudgetCall /\ pc = "done" /\ StatusAt(1) = "timeout"

\* C5 (as claimed): with or without a poll budget, every task whose enqueue
\* returned an id eventually has exactly one outcome.
OutcomesOfTask(n) ==
  IF n \in DOMAIN task_list
  THEN Cardinality({m \in DOMAIN results : results[m].idx = task_list[n].idx})
  ELSE 0
TaskOutcomes == {"success", "timeout", "error", "rate-limited", "quota-exceeded"}
C5_EveryTaskGetsOneOutcome ==
  \A n \in 1..MaxBatch :
    /\ [](n \in DOMAIN task_list => OutcomesOfTask(n) <= 1)
    /\ (n \in DOMAIN task_list) ~> (OutcomesOfTask(n) = 1)

\* C5 (amended): a task never has two outcomes, every outcome is one of the
\* closed set, and a predict_single or predict_batch call with a poll budget
\* eventually returns, every task whose enqueue returned an id having exactly
\* one outcome by then.
PredictCall == op \in {"predict_single", "predict_batch"}
C5_BudgetedTaskGetsOneOutcome ==
  /\ [](PredictCall
          => /\ \A m \in DOMAIN results : results[m].status \in TaskOutcomes
             /\ \A n \in DOMAIN task_list : OutcomesOfTask(n) <= 1
             /\ pc = "done" => \A n \in DOMAIN task_list : OutcomesOfTask(n) = 1)
  /\ (PredictCall /\ max_polls # None) ~> (pc = "done")

C5_Witness ==
  /\ op = "predict_batch"
  /\ max_polls # None
  /\ Len(task_list) = 2
  /\ pc = "done"
  /\ OutcomesOfTask(1) = 1
  /\ OutcomesOfTask(2) = 1
  /\ StatusAt(1) = "success"


\* C6: while no clear_cache runs, a cached entry never changes, and a fetch
\* for a cached task id is served that entry without a download.
FetchedTask == task_list[k].task_id
C6_CachedEntryIsFinal ==
  [][ /\ ~(pc = "idle" /\ op' = "clear_cache")
           => \A t \in DOMAIN cache : t \in DOMAIN cache' /\ cache'[t] = cache[t]
      /\ (pc = "fetch" /\ FetchedTask \in DOMAIN cache)
           => /\ fetches' = fetches
              /\ fetched' = "cache"
              /\ Last(results') = Extract(task_list[k].idx, FetchedTask, cache[FetchedTask])
    ]_vars

C6_Witness ==
  /\ pc = "returned"
  /\ fetched = "cache"
  /\ fetches = 0
  /\ Last(results).status = "success"

\* C7: clear_cache leaves the cache empty, and the next fetch for a task id it
\* removed downloads the document again and, when the download parses, caches
\* it again.
C7_ClearForcesRefetch ==
  [][ /\ (pc = "idle" /\ op' = "clear_cache") => get_cache_size(cache') = 0
      /\ (pc = "fetch" /\ FetchedTask \in evicted)
           => /\ fetches' = fetches + 1
              /\ fetched' = "network after clear"
              /\ Last(results').status = "success" => FetchedTask \in DOMAIN cache'
    ]_vars

C7_Witness ==
  /\ pc = "returned"
  /\ fetched = "network after clear"
  /\ fetches = 1
  /\ FetchedTask \in DOMAIN cache
  /\ Last(results).status = "success"

\* C8 (as claimed): an enqueue answered with 429 gives submit_prediction and
\* predict_single the outcome rate-limited, one answered with 403 the outcome
\* quota-exceeded.
EnqueueAnswered(code) == SingleCall /\ pc = "done" /\ enq_resp.code = code
C8_DistinctStatuses ==
  /\ EnqueueAnswered(429) => results[1].status = "rate-limited"
  /\ EnqueueAnswered(403) => results[1].status = "quota-exceeded"

\* C8 (amended): the status is error for 429, 403 and every other non-2xx
\* answer; the error message tells them apart: a rate-limit message for a 429
\* whose Retry-After is absent or an integer, a quota message for 403, and
\* neither for another status code or for a 429 whose Retry-After int()
\* rejects.
RateLimitMessages == {"Rate limited, please retry later", "Rate limited by Protox"}
QuotaMessages == {"Daily quota exceeded", "Daily quota exceeded for Protox API"}
C8_ErrorMessageTellsCause ==
  /\ \A code \in {429, 403, 500} : EnqueueAnswered(code) => results[1].status = "error"
  /\ EnqueueAnswered(429)
       => (results[1].error \in RateLimitMessages <=> enq_resp.retry \in {"absent", "2", "-3"})
  /\ EnqueueAnswered(429) => results[1].error \notin QuotaMessages
  /\ EnqueueAnswered(403) => results[1].error \in QuotaMessages
  /\ EnqueueAnswered(500) => results[1].error \notin RateLimitMessages \cup QuotaMessages
  /\ (EnqueueAnswered(429) /\ op = "submit_prediction" /\ enq_resp.retry = "absent")
       => results[1].error = "Rate limited, please retry later"
  /\ (EnqueueAnswered(403) /\ op = "submit_prediction")
       => results[1].error = "Daily quota exceeded"

C8_Witness ==
  /\ EnqueueAnswered(429)
  /\ op = "submit_prediction"
  /\ enq_resp.retry = "absent"
  /\ results[1].status = "error"
  /\ results[1].error = "Rate limited, please retry later"

\* C9: within one call every identifier is enqueued at most once, and an
\* identifier whose enqueue failed gets no further gateway call: it is not
\* enqueued again, and no status check or download is issued for it.
C9_FailedEnqueueIsFinal ==
  /\ \A j \in DOMAIN enqueued : enqueued[j] <= 1
  /\ pc = "enqueue" => i \notin failed
  /\ \A n \in DOMAIN task_list : task_list[n].idx \notin failed
  /\ (SingleCall /\ failed # {}) => (pc = "done" /\ checks = 0 /\ fetches = 0)

C9_Witness ==
  /\ op = "predict_batch"
  /\ failed = {1}
  /\ Len(task_list) = 1
  /\ task_list[1].idx = 2
  /\ pc = "returned"
  /\ checks = 1

\* C10: submit_prediction never polls, and a status of submitted always
\* carries a task id that is not empty: an enqueue answered 200 with an empty
\* or whitespace-only body gives an error.
C10_SubmitOnlyNeverEmptyNeverPolls ==
  op = "submit_prediction"
    => /\ checks = 0
       /\ fetches = 0
       /\ pc \in {"enqueue", "cooldown", "done"}
       /\ pc = "done"
            => /\ results[1].status = "submitted"
                    => (results[1].task_id # <<>> /\ ~WhitespaceOnly(results[1].task_id))
               /\ (enq_resp.code = 200 /\ WhitespaceOnly(enq_resp.text))
                    => results[1].status = "error"

C10_Witness ==
  /\ op = "submit_prediction"
  /\ pc = "done"
  /\ enq_resp.code = 200
  /\ enq_resp.text = <<" ">>
  /\ results[1].status = "error"

\* C11: predict_batch issues no enqueue and returns no outcome for an
\* identifier that is empty or whitespace only, and its outcomes follow the
\* order of their identifiers in the list; for a list of three whose second
\* identifier is blank and whose two enqueues succeed it returns two outcomes,
\* for the first identifier and then for the third.
BatchCall == op = "predict_batch"
BatchReturned == BatchCall /\ pc \in {"done", "responded"}
NonBlank == {j \in DOMAIN smiles_list : ~WhitespaceOnly(smiles_list[j])}
OutcomeIdx == {results[m].idx : m \in DOMAIN results}
TaskIdx == {task_list[n].idx : n \in DOMAIN task_list}
C11_BatchSkipsBlanksKeepsOrder ==
  BatchCall
    => /\ \A j \in DOMAIN smiles_list :
            WhitespaceOnly(smiles_list[j])
              => (enqueued[j] = 0 /\ j \notin TaskIdx /\ j \notin OutcomeIdx)
       /\ \A m, n \in DOMAIN results : m < n => results[m].idx < results[n].idx
       /\ (BatchReturned /\ Len(smiles_list) = 3 /\ NonBlank = {1, 3} /\ failed = {})
            => (Len(results) = 2 /\ results[1].idx = 1 /\ results[2].idx = 3)

C11_Witness ==
  /\ BatchReturned
  /\ smiles_list = << <<"a">>, <<" ">>, <<"a">> >>
  /\ failed = {}
  /\ enqueued = <<1, 0, 1>>
  /\ Len(results) = 2
  /\ results[1].idx = 1
  /\ results[2].idx = 3

\* C12 (as claimed): predict_batch returns as many outcomes as its list has
\* identifiers that are not blank, also when the enqueue of some of them
\* failed.
C12_OneOutcomePerNonBlank ==
  BatchReturned => Len(results) = Cardinality(NonBlank)

\* C12 (amended): predict_batch returns one outcome per identifier whose
\* enqueue returned a task id, in the order of the enqueues; an identifier
\* whose enqueue failed has no outcome, so the outcomes number the identifiers
\* that are not blank less those whose enqueue failed.
C12_OneOutcomePerEnqueuedTask ==
  BatchReturned
    => /\ Len(results) = Len(task_list)
       /\ \A m \in DOMAIN results : results[m].idx = task_list[m].idx
       /\ failed \subseteq NonBlank
       /\ OutcomeIdx = NonBlank \ failed
       /\ Len(results) = Cardinality(NonBlank) - Cardinality(failed)

C12_Witness ==
  /\ BatchReturned
  /\ Cardinality(NonBlank) = 3
  /\ failed = {2}
  /\ Len(results) = 2
  /\ results[1].idx = 1
  /\ results[2].idx = 3

\* C13: in predict_batch no failure of one task ends the batch.  Whatever
\* became of the enqueues before it, every identifier that is not blank has
\* been enqueued once by the time the polling starts; and whatever the
\* outcomes of the tasks before it (error or timeout), every task whose
\* enqueue returned an id has its own outcome when the call returns.
BatchPolling == BatchCall /\ pc \in {"poll", "sleep", "fetch", "returned", "done"}
C13_FailureDoesNotAbortBatch ==
  /\ BatchPolling => \A j \in NonBlank : enqueued[j] = 1
  /\ (BatchCall /\ pc = "enqueue") => \A j \in NonBlank : (j < i => enqueued[j] = 1)
  /\ (BatchCall /\ pc = "poll") => (Len(results) = k - 1 /\ k <= Len(task_list))
  /\ (BatchCall /\ pc = "done")
       => \A n \in DOMAIN task_list : OutcomesOfTask(n) = 1

C13_Witness ==
  /\ BatchCall
  /\ pc = "done"
  /\ Len(task_list) = 2
  /\ StatusAt(1) = "error"
  /\ results[1].error = ConnectError
  /\ StatusAt(2) = "success"

C15_BatchEnqueueWaits ==
  (BatchCall /\ pc = "enqueue") => owed.secs = 0

\* C16: predict_batch issues all its enqueues before its first status check:
\* while an enqueue or its cool-down is pending no status check or download
\* has been issued and no outcome exists, and once a poll loop has started
\* every identifier that is not blank has been enqueued.
C16_EnqueuesBeforeStatusChecks ==
  BatchCall
    => /\ pc \in {"enqueue", "cooldown"}
            => (k = 0 /\ checks = 0 /\ fetches = 0 /\ results = <<>>
                  /\ status_resp = NoStatus)
       /\ k >= 1 => (\A j \in NonBlank : enqueued[j] >= 1)
       /\ k >= 1 => pc \notin {"enqueue", "cooldown"}

C16_Witness ==
  /\ BatchCall
  /\ pc = "sleep"
  /\ k = 1
  /\ checks = 1
  /\ Len(task_list) = 3
  /\ enqueued = <<1, 1, 1>>

\* C17: the status of the batch response is partial exactly when at least one
\* outcome of predict_batch has the status success, and error otherwise, the
\* empty list of outcomes included.
Successes == {m \in DOMAIN results : results[m].status = "success"}
C17_BatchStatusIffSuccess ==
  pc = "responded"
    => /\ batch_status \in {"partial", "error"}
       /\ batch_status = "partial" <=> Cardinality(Successes) >= 1
       /\ results = <<>> => batch_status = "error"

C17_Witness ==
  /\ pc = "responded"
  /\ Len(results) = 2
  /\ StatusAt(1) = "timeout"
  /\ StatusAt(2) = "success"
  /\ batch_status = "partial"

\* C18: once its caller has given the call up during the cool-down sleep or
\* the poll-interval sleep, the call does not leave that sleep to go on: it
\* ends, and its outcome says it was cancelled.
C18_WaitsAreCancellable ==
  cancelled
    => \/ pc \in {"cooldown", "sleep"}
       \/ (pc = "done" /\ results # <<>> /\ Last(results).status = "cancelled")

\* C19 (as claimed): a status check answered with a code outside 2xx, or with
\* an empty body, is taken as pending: the poll loop counts a poll and sleeps,
\* get_task_status reports pending.
TakenAsPending ==
  IF op = "get_task_status"
  THEN pc = "done" /\ StatusAt(1) = "pending"
  ELSE pc = "sleep" /\ poll_count >= 1 /\ Len(results) = k - 1
TakenAsError(msg) ==
  IF op = "get_task_status"
  THEN pc = "done" /\ StatusAt(1) = "error" /\ results[1].error = msg
  ELSE /\ pc = "returned"
       /\ Len(results) = k
       /\ Last(results).status = "error"
       /\ Last(results).error = msg
       /\ fetches = 0
C19_NonSuccessIsPending ==
  status_resp \in {"non-2xx", "2xx, empty body"} => TakenAsPending

\* C19 (amended): a status check answered 2xx with an empty body, or 2xx
\* other than 200, is taken as pending.  One answered with a code outside 2xx
\* is an error: the poll loop ends with the outcome error and downloads
\* nothing, get_task_status reports error.
C19_EmptyIsPendingNonSuccessIsError ==
  /\ status_resp \in {"2xx, empty body", "2xx other than 200 with a body"}
       => TakenAsPending
  /\ status_resp = "non-2xx" => TakenAsError(HTTPStatusError)
  /\ (PredictCall /\ pc = "sleep") => poll_count = (IF checks < PollCap THEN checks ELSE PollCap)

C19_Witness ==
  /\ op = "predict_single"
  /\ status_resp = "non-2xx"
  /\ pc = "returned"
  /\ checks = 2
  /\ Last(results).status = "error"

\* C20: a status check that fails in transport ends the poll loop with the
\* outcome error, however much of the budget is left: the loop issues no
\* download, and no status check after it.
C20_TransportErrorEndsLoop ==
  status_resp = "transport error"
    => /\ TakenAsError(ConnectError)
       /\ PredictCall => (checks >= 1 /\ fetched = NotFetched)

C20_Witness ==
  /\ op = "predict_single"
  /\ max_polls = None
  /\ status_resp = "transport error"
  /\ pc = "returned"
  /\ checks = 2
  /\ fetches = 0
  /\ Last(results).status = "error"

\* C21: when a status check of the poll loop is answered ready, the loop calls
\* _get_results once and returns: it downloads at most once (not at all when
\* the cache holds the document), issues no status check afterwards, and its
\* outcome is success exactly when the document yields a number, error
\* otherwise.
ReadyAnswered == PredictCall /\ status_resp = "200 with a body"
YieldsScalar(c, tid) ==
  tid \in DOMAIN c /\ ~DfEmpty(c[tid]) /\ ~FloatRaises(FirstCell(c[tid]))
C21_ReadyFetchesOnceAndEnds ==
  /\ [](ReadyAnswered
          => /\ pc \in {"fetch", "returned"}
             /\ pc = "fetch"
                  => (fetches = 0 /\ fetched = NotFetched /\ Len(results) = k - 1)
             /\ pc = "returned"
                  => /\ fetched # NotFetched
                     /\ fetches = (IF fetched = "cache" THEN 0 ELSE 1)
                     /\ Len(results) = k
                     /\ Last(results).status \in {"success", "error"}
                     /\ Last(results).status = "success"
                          <=> YieldsScalar(cache, FetchedTask)
                     /\ Last(results).status = "success"
                          => Last(results).prediction = Float(FirstCell(cache[FetchedTask])))
  /\ [][pc = "fetch" => (pc' = "returned" /\ checks' = checks)]_vars

C21_Witness ==
  /\ ReadyAnswered
  /\ pc = "returned"
  /\ checks = 2
  /\ fetched = "network"
  /\ fetches = 1
  /\ Last(results).status = "success"
  /\ Last(results).prediction = 7

\* C22: every document the cache holds has at least one row and at least one
\* column.
C22_CachedDocsNonEmpty ==
  \A t \in DOMAIN cache : ~DfEmpty(cache[t])

\* C23: with threads side by side in _get_results for the same task id, an
\* entry of the cache, once written, is never written over with another
\* document.
C23_FirstWriterWins ==
  [][\A t \in DOMAIN cache : t \in DOMAIN cache' /\ cache'[t] = cache[t]]_vars

\* C24: the cache changes in two ways only.  clear_cache empties it.  A
\* _get_results that misses the cache, for a task id whose status check was
\* answered ready, adds one entry under that task id when its download and
\* read_csv succeed, and leaves the other entries as they are.  A miss whose
\* download or read_csv fails, and every other step of every operation,
\* leaves the cache as it is.
ClearStep == pc = "idle" /\ op' = "clear_cache"
MissStep == pc = "fetch" /\ FetchedTask \notin DOMAIN cache
C24_CacheFrame ==
  [][ /\ ClearStep => cache' = EmptyCache
      /\ (cache' # cache /\ ~ClearStep)
           => /\ MissStep
              /\ status_resp = "200 with a body"
              /\ DOMAIN cache' = DOMAIN cache \cup {FetchedTask}
              /\ \A t \in DOMAIN cache : cache'[t] = cache[t]
              /\ Last(results') = Extract(task_list[k].idx, FetchedTask, cache'[FetchedTask])
      /\ (MissStep /\ cache' = cache)
           => /\ Last(results').status = "error"
              /\ Last(results').error = "Failed to parse results"
    ]_vars

C24_Witness ==
  /\ pc = "returned"
  /\ fetched = "network"
  /\ get_cache_size(cache) = 2
  /\ FetchedTask \in DOMAIN cache
  /\ Last(results).status = "success"

\* C25: in predict_batch every task of task_list, and every outcome that
\* carries a task id, carries the id that the enqueue of its own identifier
\* returned in this call; and when those enqueues returned ids that differ, no
\* two outcomes carry the same id.
IssuedDiffer ==
  \A a, b \in DOMAIN issued :
    (a # b /\ issued[a] # NoTask) => issued[a] # issued[b]
C25_OutcomeCarriesOwnTaskId ==
  BatchCall
    => /\ \A n \in DOMAIN task_list :
            /\ task_list[n].idx \in DOMAIN issued
            /\ task_list[n].task_id = issued[task_list[n].idx]
       /\ \A m \in DOMAIN results :
            /\ results[m].idx \in DOMAIN issued
            /\ issued[results[m].idx] # NoTask
            /\ results[m].task_id \in {NoTask, issued[results[m].idx]}
       /\ IssuedDiffer
            => \A m, n \in DOMAIN results :
                 (m # n /\ results[m].task_id # NoTask)
                   => results[m].task_id # results[n].task_id

C25_Witness ==
  /\ BatchReturned
  /\ issued = << <<"a">>, NoTask, <<"b">> >>
  /\ Len(results) = 2
  /\ results[1].task_id = <<"a">>
  /\ results[1].idx = 1
  /\ results[2].task_id = <<"b">>
  /\ results[2].idx = 3

====
